---- MODULE Spec2Model ----
(***************************************************************************)
(* HardTimerAsEncoder.ino: a hardware timer used as a quadrature encoder   *)
(* interface, an overflow interrupt that counts whole revolutions, a       *)
(* software encoder simulator driven by serial commands, and a status      *)
(* reporter.                                                               *)
(*                                                                         *)
(* The main loop is a process with a program counter; the overflow         *)
(* interrupt, the timer peripheral, the millisecond clock and the serial   *)
(* link act between any two of its steps.  The sketch never masks          *)
(* interrupts, so a pending overflow event is served before anything else  *)
(* goes on: every other action waits for the handler.                      *)
(*                                                                         *)
(* Spec is the whole sketch within small bounds.  SpecTimer, SpecSim and   *)
(* SpecPeriod run parts of it further: the timer with its handler over     *)
(* whole revolutions, the simulator from every value of its 8-bit step     *)
(* counter, and the update period next to the end of its 32-bit range.     *)
(***************************************************************************)
EXTENDS Integers, Sequences, FiniteSets

(***************************************************************************)
(* Bounds of the model.                                                    *)
(***************************************************************************)
\* Spec: the clock runs up to MaxTime ms, in steps of ClockSteps (one step
\* makes both the simulator tick and the status report due).
MaxTime == 1000
ClockSteps == {1000}
\* Spec: bytes the serial link delivers in one run, and the receive buffer.
MaxBytes == 2
MaxQueue == 2
\* Spec: the net pulse count stays within -MaxPulses .. MaxPulses, and the
\* count register wraps at most MaxWraps times.
MaxPulses == 1
MaxWraps == 1
\* SpecSched asks for tick checks at most PollGap ms apart; the history
\* measures the time between two tick checks up to GapCap, "longer than that".
PollGap == 50
GapCap == PollGap + 1
\* The history counts the simulator ticks of either direction up to TickCap,
\* more than any run of SpecSim and SpecSched holds.
TickCap == 12
\* SpecSim: the clock runs up to SimMaxTime ms and the link delivers
\* SimMaxBytes direction bytes.
SimMaxTime == 1000
SimMaxBytes == 1
\* SpecPeriod: the link delivers PeriodMaxBytes speed bytes.
PeriodMaxBytes == 4
\* SpecTimer: the same two bounds, wide enough for two whole revolutions
\* in either direction.
TimerMaxPulses == 2100
TimerMaxWraps == 4

\* The bytes the serial link delivers: the nine commands, 'B' of the
\* protocol comment, and 'x' for every other byte.
Bytes == {"F", "R", "1", "2", "3", "4", "0", "-", "+", "B", "x"}

(***************************************************************************)
(* Program constants.                                                      *)
(***************************************************************************)
\* #define PPR 1024
PPR == 1024
\* static const uint16_t periodDelta = 50
periodDelta == 50
\* the floor written by '+': updatePeriod = 50
periodFloor == 50
\* the status period: millis() - lastMessageAt >= 1000
statusPeriod == 1000
\* static unsigned long updatePeriod = 100
initialPeriod == 100

(***************************************************************************)
(* uint32_t / unsigned long (32 bits on the STM32): a value is kept as two *)
(* 16-bit halves, so that every intermediate result stays small; the       *)
(* arithmetic is the C arithmetic modulo 2^32.                             *)
(***************************************************************************)
Half == 2^16

\* the 32-bit value of the integer n (two's complement for a negative n)
U32(n) == [hi |-> (n \div Half) % Half, lo |-> n % Half]

U32Add(a, b) ==
  LET s == a.lo + b.lo
  IN  [hi |-> (a.hi + b.hi + (s \div Half)) % Half, lo |-> s % Half]

U32Sub(a, b) ==
  LET d == a.lo - b.lo
  IN  [hi |-> (a.hi - b.hi + (d \div Half)) % Half, lo |-> d % Half]

U32Le(a, b) == a.hi < b.hi \/ (a.hi = b.hi /\ a.lo <= b.lo)

U32Ge(a, b) == U32Le(b, a)

\* unsigned char: 8 bits
U8(n) == n % 256

VARIABLES
  pc,               \* position of the main loop
  now,              \* millis()
  lastMessageAt,    \* loop: static uint32_t lastMessageAt
  line,             \* the fields of the status line printed so far / last
  updatePeriod,     \* simulate: static unsigned long updatePeriod
  lastSimulationAt, \* simulate: static unsigned long lastSimulationAt
  mode,             \* simulate: static unsigned char mode
  dir,              \* simulate: static unsigned char dir
  received,         \* simulate: char received, the byte last read
  rx,               \* bytes waiting in the serial receive buffer
  outA, outB,       \* levels of output_a, output_b
  revolutions,      \* volatile uint32_t revolutions
  count,            \* timer count register
  dirFlag,          \* timer direction flag (0: up-counting)
  ovfPending,       \* an overflow event waits for its handler
  edgeCounting,     \* timer edge-counting mode
  prescale,         \* timer prescale factor
  overflow,         \* timer overflow (reload) value
  pulses,           \* history: up-counts minus down-counts since setup
  fwdEvents,        \* history: handler invocations with the flag 0
  revEvents,        \* history: handler invocations with the flag set
  fwdTicks,         \* history: simulator ticks with dir = 'F'
  revTicks,         \* history: simulator ticks with dir = 'R'
  startMode,        \* history: the step counter at the start
  arrived,          \* history: bytes delivered by the serial link
  idle,             \* history: ms since the last tick check, up to GapCap
  maxGap,           \* history: the longest time between two tick checks
  lineAt,           \* history: millis() when the last status line was printed
  seen,             \* history: the readings (direction, revolutions, count)
                    \* the timer and the counter showed during the last report
  watching          \* history: whether the readings of a report are recorded

simVars == <<updatePeriod, lastSimulationAt, mode, dir, received, outA, outB>>
timerConfig == <<edgeCounting, prescale, overflow>>
timerRegs == <<count, dirFlag, ovfPending>>
history == <<pulses, fwdEvents, revEvents, fwdTicks, revTicks, startMode, arrived>>
observed == <<idle, maxGap, lineAt, seen, watching>>
vars == <<pc, now, lastMessageAt, line, simVars, rx, revolutions,
          timerConfig, timerRegs, history, observed>>

\* what a status report reads: the direction as printed, revolutions, count
Reading(f, r, c) == <<(IF f # 0 THEN "R" ELSE "F"), r, c>>

\* the status report is between its first and its last read
Printing == pc \in {"print_dir", "print_revs", "print_count"}

(***************************************************************************)
(* simulateStep: the table {0,1,3,2}, packed 0bBA, indexed by step & 3.    *)
(***************************************************************************)
\* the table in plain binary order
statesBinary == <<0, 1, 2, 3>>

\* mutant: the table packed as 0bAB
statesAB == <<0, 2, 3, 1>>

states == <<0, 1, 3, 2>>

\* step & 3
StepIndex(step) == step % 4

levelA(step) == states[StepIndex(step) + 1] % 2

levelB(step) == states[StepIndex(step) + 1] \div 2

(***************************************************************************)
(* The state when setup() has returned: the static initialisers and the    *)
(* timer configuration written by setup.  Start is that state but for the  *)
(* step counter (the pins show its levels) and the update period.          *)
(***************************************************************************)
StartWatching(m, p, w) ==
  /\ pc = "loop"
  /\ now = U32(0)
  /\ lastMessageAt = U32(0)
  /\ line = <<>>
  /\ updatePeriod = p
  /\ lastSimulationAt = U32(0)
  /\ mode = m
  /\ dir = "F"
  /\ received = ""
  /\ rx = <<>>
  /\ outA = levelA(m)
  /\ outB = levelB(m)
  /\ revolutions = U32(0)
  /\ count = 0
  /\ dirFlag = 0
  /\ ovfPending = FALSE
  /\ edgeCounting = "ENCODER3"
  /\ prescale = 1
  /\ overflow = PPR
  /\ pulses = 0
  /\ fwdEvents = 0
  /\ revEvents = 0
  /\ fwdTicks = 0
  /\ revTicks = 0
  /\ startMode = m
  /\ arrived = 0
  /\ idle = 0
  /\ maxGap = 0
  /\ lineAt = U32(0)
  /\ seen = {}
  /\ watching = w

\* setup, the history not recording the readings of the reports
Start(m, p) == StartWatching(m, p, FALSE)

Init == Start(0, U32(initialPeriod))

(***************************************************************************)
(* The overflow interrupt handler.                                         *)
(***************************************************************************)
\* the handler with the direction test inverted
overflowInterruptInverted ==
  /\ ovfPending
  /\ revolutions' = (IF dirFlag # 0 THEN U32Add(revolutions, U32(1))
                                     ELSE U32Sub(revolutions, U32(1)))
  /\ ovfPending' = FALSE
  /\ fwdEvents' = fwdEvents + (IF dirFlag = 0 THEN 1 ELSE 0)
  /\ revEvents' = revEvents + (IF dirFlag = 0 THEN 0 ELSE 1)
  /\ seen' = (IF watching /\ Printing
                THEN seen \cup {Reading(dirFlag, revolutions', count)}
                ELSE seen)
  /\ UNCHANGED <<pc, now, lastMessageAt, line, simVars, rx, timerConfig,
                 count, dirFlag, pulses, fwdTicks, revTicks, startMode, arrived,
                 idle, maxGap, lineAt,
                 watching>>

\* if (timer.getDirection()) revolutions--; else revolutions++;
overflowInterrupt ==
  /\ ovfPending
  /\ revolutions' = (IF dirFlag # 0 THEN U32Sub(revolutions, U32(1))
                                     ELSE U32Add(revolutions, U32(1)))
  /\ ovfPending' = FALSE
  /\ fwdEvents' = fwdEvents + (IF dirFlag = 0 THEN 1 ELSE 0)
  /\ revEvents' = revEvents + (IF dirFlag = 0 THEN 0 ELSE 1)
  /\ seen' = (IF watching /\ Printing
                THEN seen \cup {Reading(dirFlag, revolutions', count)}
                ELSE seen)
  /\ UNCHANGED <<pc, now, lastMessageAt, line, simVars, rx, timerConfig,
                 count, dirFlag, pulses, fwdTicks, revTicks, startMode, arrived,
                 idle, maxGap, lineAt,
                 watching>>

(***************************************************************************)
(* The timer peripheral in encoder mode counts one pulse, up or down.  The *)
(* count register runs through 0 .. overflow - 1 and raises one overflow   *)
(* event per wrap; the handler is served before the next pulse is counted. *)
(***************************************************************************)
TimerCount(up) ==
  /\ ~ovfPending
  /\ dirFlag' = (IF up THEN 0 ELSE 1)
  /\ count' = (IF up THEN count + 1 ELSE count - 1) % overflow
  /\ ovfPending' = (IF up THEN count = overflow - 1 ELSE count = 0)
  /\ pulses' = (IF up THEN pulses + 1 ELSE pulses - 1)
  /\ seen' = (IF watching /\ Printing
                THEN seen \cup {Reading(dirFlag', revolutions, count')}
                ELSE seen)
  /\ UNCHANGED <<pc, now, lastMessageAt, line, simVars, rx, revolutions,
                 timerConfig, fwdEvents, revEvents, fwdTicks, revTicks,
                 startMode, arrived, idle, maxGap, lineAt,
                 watching>>

(***************************************************************************)
(* The millisecond clock advances by d.                                    *)
(***************************************************************************)
Advance(d) ==
  /\ ~ovfPending
  /\ now' = U32Add(now, U32(d))
  /\ idle' = (IF idle + d < GapCap THEN idle + d ELSE GapCap)
  /\ UNCHANGED <<pc, lastMessageAt, line, simVars, rx, revolutions,
                 timerConfig, timerRegs, history, maxGap, lineAt, seen,
                 watching>>

(***************************************************************************)
(* The serial link delivers byte b into the receive buffer.                *)
(***************************************************************************)
SerialReceive(b) ==
  /\ ~ovfPending
  /\ Len(rx) < MaxQueue
  /\ rx' = Append(rx, b)
  /\ arrived' = arrived + 1
  /\ UNCHANGED <<pc, now, lastMessageAt, line, simVars, revolutions,
                 timerConfig, timerRegs, pulses, fwdEvents, revEvents,
                 fwdTicks, revTicks, startMode, observed>>

\* mutant: the status report waits for more than statusPeriod ms
LoopCheckStrict ==
  /\ pc = "loop" /\ ~ovfPending
  /\ pc' = (IF ~U32Le(U32Sub(now, lastMessageAt), U32(statusPeriod))
              THEN "print_dir" ELSE "comms")
  /\ seen' = (IF watching /\ pc' = "print_dir"
                THEN {Reading(dirFlag, revolutions, count)}
                ELSE seen)
  /\ UNCHANGED <<now, lastMessageAt, line, simVars, rx, revolutions,
                 timerConfig, timerRegs, history, idle, maxGap, lineAt,
                 watching>>

(***************************************************************************)
(* loop(): the status reporter.                                            *)
(***************************************************************************)
\* if (millis() - lastMessageAt >= 1000)
LoopCheck ==
  /\ pc = "loop" /\ ~ovfPending
  /\ pc' = (IF U32Ge(U32Sub(now, lastMessageAt), U32(statusPeriod))
              THEN "print_dir" ELSE "comms")
  /\ seen' = (IF watching /\ pc' = "print_dir"
                THEN {Reading(dirFlag, revolutions, count)}
                ELSE seen)
  /\ UNCHANGED <<now, lastMessageAt, line, simVars, rx, revolutions,
                 timerConfig, timerRegs, history, idle, maxGap, lineAt,
                 watching>>

\* mutant: the report prints 'F' for a non-zero direction flag
PrintDirectionInverted ==
  /\ pc = "print_dir" /\ ~ovfPending
  /\ line' = <<(IF dirFlag # 0 THEN "F" ELSE "R")>>
  /\ pc' = "print_revs"
  /\ UNCHANGED <<now, lastMessageAt, simVars, rx, revolutions,
                 timerConfig, timerRegs, history, observed>>

\* Serial.print(timer.getDirection()?'R':'F')
PrintDirection ==
  /\ pc = "print_dir" /\ ~ovfPending
  /\ line' = <<(IF dirFlag # 0 THEN "R" ELSE "F")>>
  /\ pc' = "print_revs"
  /\ UNCHANGED <<now, lastMessageAt, simVars, rx, revolutions,
                 timerConfig, timerRegs, history, observed>>

\* a report that clears the counter once it is printed
PrintRevolutionsAndClear ==
  /\ pc = "print_revs" /\ ~ovfPending
  /\ line' = Append(line, revolutions)
  /\ revolutions' = U32(0)
  /\ pc' = "print_count"
  /\ UNCHANGED <<now, lastMessageAt, simVars, rx,
                 timerConfig, timerRegs, history, observed>>

\* Serial.print(revolutions)
PrintRevolutions ==
  /\ pc = "print_revs" /\ ~ovfPending
  /\ line' = Append(line, revolutions)
  /\ pc' = "print_count"
  /\ UNCHANGED <<now, lastMessageAt, simVars, rx, revolutions,
                 timerConfig, timerRegs, history, observed>>

\* Serial.print(timer.getCount()); Serial.println(" counts")
PrintCount ==
  /\ pc = "print_count" /\ ~ovfPending
  /\ line' = Append(line, count)
  /\ lineAt' = now
  /\ pc' = "stamp"
  /\ UNCHANGED <<now, lastMessageAt, simVars, rx, revolutions,
                 timerConfig, timerRegs, history, idle, maxGap, seen,
                 watching>>

\* lastMessageAt = millis()
Stamp ==
  /\ pc = "stamp" /\ ~ovfPending
  /\ lastMessageAt' = now
  /\ seen' = {}
  /\ pc' = "comms"
  /\ UNCHANGED <<now, line, simVars, rx, revolutions,
                 timerConfig, timerRegs, history, idle, maxGap, lineAt,
                 watching>>

(***************************************************************************)
(* simulate(): the command interpreter.                                    *)
(***************************************************************************)
\* a dispatch that also takes the 'B' of the protocol comment as a direction
DirAfterWithB(b, d) ==
  IF b = "F" \/ b = "R" \/ b = "B" THEN b ELSE d

\* the effect of one received byte on dir
DirAfter(b, d) ==
  IF b = "F" \/ b = "R" THEN b ELSE d

\* a dispatch with the modes of '1' and '2' exchanged
EdgeCountingAfterSwapped(b, e) ==
  IF b = "1" THEN "ENCODER2"
  ELSE IF b = "2" THEN "ENCODER1"
  ELSE IF b = "3" THEN "ENCODER3"
  ELSE e

\* the effect of one received byte on the edge-counting mode
EdgeCountingAfter(b, e) ==
  IF b = "1" THEN "ENCODER1"
  ELSE IF b = "2" THEN "ENCODER2"
  ELSE IF b = "3" THEN "ENCODER3"
  ELSE e

\* a dispatch that resets the prescale factor on every byte but '4'
PrescaleAfterElseOne(b, p) ==
  IF b = "4" THEN 4 ELSE 1

\* the effect of one received byte on the prescale factor
PrescaleAfter(b, p) ==
  IF b = "4" THEN 4
  ELSE IF b = "0" THEN 1
  ELSE p

\* the effect of one received byte on updatePeriod
PeriodAfter(b, p) ==
  IF b = "-" THEN U32Add(p, U32(periodDelta))
  ELSE IF b = "+"
    THEN IF U32Le(p, U32(periodDelta)) THEN U32(periodFloor)
         ELSE U32Sub(p, U32(periodDelta))
  ELSE p

\* mutant: simulate() reads until the buffer is empty and handles the last byte
CommsDrain ==
  /\ pc = "comms" /\ ~ovfPending
  /\ IF Len(rx) > 0
       THEN /\ received' = rx[Len(rx)]
            /\ rx' = <<>>
            /\ dir' = DirAfter(received', dir)
            /\ edgeCounting' = EdgeCountingAfter(received', edgeCounting)
            /\ prescale' = PrescaleAfter(received', prescale)
            /\ updatePeriod' = PeriodAfter(received', updatePeriod)
       ELSE UNCHANGED <<received, rx, dir, edgeCounting, prescale, updatePeriod>>
  /\ pc' = "tick"
  /\ UNCHANGED <<now, lastMessageAt, line, lastSimulationAt, mode, outA, outB,
                 revolutions, overflow, timerRegs, history, observed>>

\* if (Serial.available() > 0) { char received = Serial.read(); ... }
Comms ==
  /\ pc = "comms" /\ ~ovfPending
  /\ IF Len(rx) > 0
       THEN /\ received' = Head(rx)
            /\ rx' = Tail(rx)
            /\ dir' = DirAfter(received', dir)
            /\ edgeCounting' = EdgeCountingAfter(received', edgeCounting)
            /\ prescale' = PrescaleAfter(received', prescale)
            /\ updatePeriod' = PeriodAfter(received', updatePeriod)
       ELSE UNCHANGED <<received, rx, dir, edgeCounting, prescale, updatePeriod>>
  /\ pc' = "tick"
  /\ UNCHANGED <<now, lastMessageAt, line, lastSimulationAt, mode, outA, outB,
                 revolutions, overflow, timerRegs, history, observed>>

(***************************************************************************)
(* simulate(): the pulse simulator.                                        *)
(***************************************************************************)
\* if (millis() - lastSimulationAt >= updatePeriod)
TickCheck ==
  /\ pc = "tick" /\ ~ovfPending
  /\ pc' = (IF U32Ge(U32Sub(now, lastSimulationAt), updatePeriod)
              THEN "step" ELSE "loop")
  /\ idle' = 0
  /\ maxGap' = (IF maxGap <= idle THEN idle ELSE maxGap)
  /\ UNCHANGED <<now, lastMessageAt, line, simVars, rx, revolutions,
                 timerConfig, timerRegs, history, lineAt, seen,
                 watching>>

\* a backward tick that stops at 0 instead of wrapping
ModeAfterNoWrap(d, m) ==
  IF d = "F" THEN U8(m + 1)
  ELSE IF d = "R" THEN (IF m = 0 THEN 0 ELSE m - 1)
  ELSE m

\* mode after one tick in direction d
\* mutant: the step counter wraps from 254 to 0 and from 0 to 254
ModeAfterWrap255(d, m) ==
  IF d = "F" THEN (m + 1) % 255
  ELSE IF d = "R" THEN (m + 254) % 255
  ELSE m

ModeAfter(d, m) ==
  IF d = "F" THEN U8(m + 1)
  ELSE IF d = "R" THEN U8(m - 1)
  ELSE m

\* a tick counter of the history counts up to TickCap
Counted(n) == IF n < TickCap THEN n + 1 ELSE n

\* mutant: the tick does not record when it fired
TickStepNoStamp ==
  /\ pc = "step" /\ ~ovfPending
  /\ mode' = ModeAfter(dir, mode)
  /\ outA' = levelA(mode')
  /\ outB' = levelB(mode')
  /\ fwdTicks' = (IF dir = "F" THEN Counted(fwdTicks) ELSE fwdTicks)
  /\ revTicks' = (IF dir = "R" THEN Counted(revTicks) ELSE revTicks)
  /\ pc' = "loop"
  /\ UNCHANGED <<now, lastMessageAt, line, updatePeriod, lastSimulationAt,
                 dir, received, rx, revolutions, timerConfig, timerRegs,
                 pulses, fwdEvents, revEvents, startMode, arrived, observed>>

\* lastSimulationAt = millis(); mode++ / mode--; simulateStep(mode)
TickStep ==
  /\ pc = "step" /\ ~ovfPending
  /\ lastSimulationAt' = now
  /\ mode' = ModeAfter(dir, mode)
  /\ outA' = levelA(mode')
  /\ outB' = levelB(mode')
  /\ fwdTicks' = (IF dir = "F" THEN Counted(fwdTicks) ELSE fwdTicks)
  /\ revTicks' = (IF dir = "R" THEN Counted(revTicks) ELSE revTicks)
  /\ pc' = "loop"
  /\ UNCHANGED <<now, lastMessageAt, line, updatePeriod, dir, received, rx,
                 revolutions, timerConfig, timerRegs, pulses, fwdEvents,
                 revEvents, startMode, arrived, observed>>

\* one step of loop()
LoopStep ==
  \/ LoopCheck
  \/ PrintDirection
  \/ PrintRevolutions
  \/ PrintCount
  \/ Stamp
  \/ Comms
  \/ TickCheck
  \/ TickStep

(***************************************************************************)
(* The program: the main loop, preempted by the overflow interrupt, with   *)
(* the timer, the clock and the serial link acting between its steps.      *)
(***************************************************************************)
\* the environment of the main loop, within the bounds given
Pulse(maxPulses, maxWraps) ==
  \E up \in BOOLEAN :
    /\ (IF up THEN pulses < maxPulses ELSE pulses > -maxPulses)
    /\ TimerCount(up)
    /\ ovfPending' => fwdEvents + revEvents < maxWraps

Clock(steps, maxTime) ==
  \E d \in steps :
    /\ now.hi = 0 /\ now.lo + d <= maxTime
    /\ Advance(d)

Link(bytes, maxBytes) ==
  \E b \in bytes :
    /\ arrived < maxBytes
    /\ SerialReceive(b)

Next ==
  \/ LoopStep
  \/ overflowInterrupt
  \/ Pulse(MaxPulses, MaxWraps)
  \/ Clock(ClockSteps, MaxTime)
  \/ Link(Bytes, MaxBytes)

Spec == Init /\ [][Next]_vars

(***************************************************************************)
(* The timer and its overflow handler alone: any sequence of up and down   *)
(* counts from the state setup leaves.                                     *)
(***************************************************************************)
NextTimer ==
  \/ overflowInterrupt
  \/ Pulse(TimerMaxPulses, TimerMaxWraps)

SpecTimer == Init /\ [][NextTimer]_vars

(***************************************************************************)
(* The simulator from every value of its 8-bit step counter, with          *)
(* direction commands only and the timer inputs idle.                      *)
(***************************************************************************)
InitSim == \E m \in 0 .. 255 : Start(m, U32(initialPeriod))

NextSim ==
  \/ LoopStep
  \/ Clock({100}, SimMaxTime)
  \/ Link({"F", "R"}, SimMaxBytes)

SpecSim == InitSim /\ [][NextSim]_vars

(***************************************************************************)
(* The update period under runs of '-' and '+'.  The runs start from the   *)
(* initial period 100 and from 4294967200 = 100 + 50 * 85899342, the       *)
(* period after 85899342 bytes '-'.                                        *)
(***************************************************************************)
PeriodStarts == {U32(initialPeriod), [hi |-> 65535, lo |-> 65440]}

InitPeriod == \E p \in PeriodStarts : Start(0, p)

NextPeriod ==
  \/ LoopStep
  \/ Clock(ClockSteps, MaxTime)
  \/ Link({"-", "+"}, PeriodMaxBytes)

SpecPeriod == InitPeriod /\ [][NextPeriod]_vars

\* SpecSched: the first 300 ms after setup in steps of 5 ms, the status report
\* not yet due. A pass through loop() takes no time; the clock moves between
\* two passes, and never so far that two tick checks are more than PollGap ms
\* apart. The serial link delivers up to SchedMaxBytes direction and speed
\* commands.
SchedMaxTime == 300
SchedMaxBytes == 2
SchedSteps == {5}

\* loop() before the status report is due: the time check, then simulate()
PollStep ==
  \/ LoopCheck
  \/ Comms
  \/ TickCheck
  \/ TickStep

PolledClock(steps, maxTime, gap) ==
  \E d \in steps :
    /\ pc = "loop"
    /\ idle + d <= gap
    /\ Clock({d}, maxTime)

NextSched ==
  \/ PollStep
  \/ PolledClock(SchedSteps, SchedMaxTime, PollGap)
  \/ Link({"R", "-"}, SchedMaxBytes)

SpecSched == Init /\ [][NextSched]_vars

\* SpecReport: the first 2500 ms after setup in steps of 250 ms, long enough
\* for two status reports, while the timer counts up to ReportMaxPulses
\* pulses in either direction and wraps up to ReportMaxWraps times.
ReportMaxTime == 2500
ReportMaxPulses == 1
ReportMaxWraps == 1
ReportSteps == {250}

\* setup, the history recording the readings of the reports
InitReport == StartWatching(0, U32(initialPeriod), TRUE)

NextReport ==
  \/ LoopStep
  \/ overflowInterrupt
  \/ Pulse(ReportMaxPulses, ReportMaxWraps)
  \/ Clock(ReportSteps, ReportMaxTime)

SpecReport == InitReport /\ [][NextReport]_vars

(***************************************************************************)
(* C1: each invocation of the overflow handler changes revolutions by      *)
(* exactly one, +1 with the direction flag 0 and -1 with the flag set,     *)
(* wrapping at 32 bits: after k forward and m reverse overflow events      *)
(* from 0 the counter is (k - m) modulo 2^32.                              *)
(***************************************************************************)
C1_RevolutionsIsNetOverflows == revolutions = U32(fwdEvents - revEvents)

\* three reverse overflows and a forward one have been handled: the counter
\* has wrapped below 0 to 4294967294
C1_Witness ==
  /\ revEvents = 3 /\ fwdEvents = 1 /\ ~ovfPending
  /\ revolutions = [hi |-> 65535, lo |-> 65534]

(***************************************************************************)
(* C2: whenever no overflow interrupt is pending, the net number of pulses *)
(* counted since setup equals revolutions * PPR + getCount().              *)
(* revolutions * PPR + count is at least 2^26 when the upper half of       *)
(* revolutions is not 0, and the net pulse count is far smaller. The       *)
(* identity is that of the sketch's header (lines 8-11) over a counter     *)
(* that is decremented below 0; revolutions is declared uint32_t (line     *)
(* 48), so one count down from 0 leaves revolutions = 4294967295 and       *)
(* count = 1023 with a net count of -1.                                    *)
(***************************************************************************)
C2_PulsesEqualTotal ==
  ~ovfPending => revolutions.hi = 0 /\ revolutions.lo * PPR + count = pulses

(***************************************************************************)
(* C3: simulateStep is a total function of its argument modulo 4: for      *)
(* every 8-bit step value, step mod 4 = 0 drives (A=0,B=0), 1 drives       *)
(* (A=1,B=0), 2 drives (A=1,B=1) and 3 drives (A=0,B=1).                   *)
(***************************************************************************)
C3_LevelsByStepMod4 ==
  /\ mode % 4 = 0 => outA = 0 /\ outB = 0
  /\ mode % 4 = 1 => outA = 1 /\ outB = 0
  /\ mode % 4 = 2 => outA = 1 /\ outB = 1
  /\ mode % 4 = 3 => outA = 0 /\ outB = 1

\* simulateStep(255) has driven (A=0,B=1) after a backward tick from 0
C3_Witness ==
  /\ startMode = 0 /\ revTicks = 1 /\ fwdTicks = 0
  /\ mode = 255 /\ outA = 0 /\ outB = 1

(***************************************************************************)
(* C4: in every state reachable by any sequence of serial bytes,           *)
(* including arbitrarily long runs of '-' and '+', updatePeriod is at      *)
(* least 50 ms; it never reaches a near-zero or wrapped value.             *)
(***************************************************************************)
C4_PeriodAtLeastFloor == U32Ge(updatePeriod, U32(periodFloor))

(***************************************************************************)
(* C5: for every value p of updatePeriod, handling '-' yields p + 50 and   *)
(* handling '+' yields max(50, p - 50).  r = p + 50 as integers when r is  *)
(* the 32-bit sum and did not wrap below p; max(50, p - 50) is 50 when     *)
(* p <= 100 and p - 50 otherwise.                                          *)
(***************************************************************************)
C5_PeriodArithmetic ==
  [][(pc = "comms" /\ Len(rx) > 0 /\ pc' = "tick") =>
       /\ Head(rx) = "-" =>
            /\ updatePeriod' = U32Add(updatePeriod, U32(50))
            /\ U32Le(updatePeriod, updatePeriod')
       /\ Head(rx) = "+" =>
            updatePeriod' = (IF U32Le(updatePeriod, U32(100)) THEN U32(50)
                             ELSE U32Sub(updatePeriod, U32(50)))]_vars

\* the bytes of the dispatch table
Commands == {"F", "R", "1", "2", "3", "4", "0", "-", "+"}

\* this step is simulate() reading byte b and dispatching on it
Handles(b) == pc = "comms" /\ pc' = "tick" /\ Len(rx) > 0 /\ Head(rx) = b

(***************************************************************************)
(* C6: handling 'F' sets the direction to FORWARD and handling 'R' sets it *)
(* to REVERSE, whatever it was; the direction is always one of the two,    *)
(* starts as FORWARD, and no other byte, no tick, no status report and no  *)
(* overflow interrupt changes it.                                          *)
(***************************************************************************)
C6_DirectionByFAndR ==
  /\ dir = "F"
  /\ [][/\ dir' \in {"F", "R"}
        /\ Handles("F") => dir' = "F"
        /\ Handles("R") => dir' = "R"
        /\ ~(Handles("F") \/ Handles("R")) => dir' = dir]_vars

\* 'R' was handled, a tick ran in reverse, and 'F' was handled then
C6_Witness ==
  /\ dir = "F" /\ received = "F" /\ revTicks = 1 /\ pc = "tick"

(***************************************************************************)
(* C7: handling a byte outside {F, R, 1, 2, 3, 4, 0, -, +} leaves          *)
(* direction, updatePeriod, the step counter, the output levels, the       *)
(* revolution counter and the timer configuration unchanged; the byte is   *)
(* consumed and the loop goes on.                                          *)
(***************************************************************************)
C7_OtherBytesIgnored ==
  [][\A b \in Bytes \ Commands :
       Handles(b) =>
         /\ UNCHANGED <<dir, updatePeriod, mode, outA, outB, revolutions,
                        edgeCounting, prescale, overflow, lastSimulationAt,
                        lastMessageAt, count, dirFlag, ovfPending>>
         /\ rx' = Tail(rx)
         /\ pc' = "tick"]_vars

\* 'x' was handled after '4' had changed the prescale factor
C7_Witness ==
  /\ received = "x" /\ pc = "tick" /\ prescale = 4 /\ rx = <<>>

(***************************************************************************)
(* C8: after setup (prescale factor 1, overflow 1024, count 0, ENCODER3)   *)
(* the timer configuration is changed by command bytes only: '1', '2',     *)
(* '3' set the edge-counting mode, '4' and '0' the prescale factor, each   *)
(* its own field only and none of direction, updatePeriod, step counter;   *)
(* no other byte, tick, status report or interrupt changes the             *)
(* edge-counting mode, the prescale factor or the overflow value.          *)
(***************************************************************************)
C8_ConfigByCommandsOnly ==
  /\ edgeCounting = "ENCODER3" /\ prescale = 1 /\ overflow = 1024 /\ count = 0
  /\ [][/\ Handles("1") => edgeCounting' = "ENCODER1"
        /\ Handles("2") => edgeCounting' = "ENCODER2"
        /\ Handles("3") => edgeCounting' = "ENCODER3"
        /\ Handles("4") => prescale' = 4
        /\ Handles("0") => prescale' = 1
        /\ (\E b \in {"1", "2", "3"} : Handles(b)) =>
              UNCHANGED <<prescale, overflow, dir, updatePeriod, mode>>
        /\ (\E b \in {"4", "0"} : Handles(b)) =>
              UNCHANGED <<edgeCounting, overflow, dir, updatePeriod, mode>>
        /\ ~(\E b \in {"1", "2", "3"} : Handles(b)) =>
              edgeCounting' = edgeCounting
        /\ ~(\E b \in {"4", "0"} : Handles(b)) => prescale' = prescale
        /\ overflow' = overflow]_vars

\* '4' and then '1' were handled
C8_Witness ==
  /\ received = "1" /\ edgeCounting = "ENCODER1" /\ prescale = 4
  /\ pc = "tick"

(***************************************************************************)
(* C9: under every interleaving of the overflow interrupt with the main    *)
(* loop, revolutions is written by the overflow handler only and changes   *)
(* at most once per overflow event (the change consumes the event); no     *)
(* step of the main loop changes it, and the handler writes nothing else.  *)
(***************************************************************************)
C9_OnlyHandlerWritesRevolutions ==
  [][/\ revolutions' # revolutions => ovfPending /\ ~ovfPending' /\ pc' = pc
     /\ (ovfPending /\ ~ovfPending') =>
           UNCHANGED <<pc, lastMessageAt, line, simVars, rx, timerConfig,
                       count, dirFlag>>
     /\ pc' # pc => revolutions' = revolutions]_vars

\* the handler ran between two prints of one status line: the direction
\* was printed as 'F', then a down-count wrapped and the handler ran
C9_Witness ==
  /\ pc = "print_revs" /\ line = <<"F">>
  /\ revEvents = 1 /\ revolutions = U32(-1)

(***************************************************************************)
(* C10: from every starting value of the step counter, as many forward     *)
(* ticks as reverse ticks return stepIndex (the counter reduced to 2 bits) *)
(* to its original value, also across the wrap of the 8-bit counter; a     *)
(* reverse tick from stepIndex 0 yields 3.                                 *)
(***************************************************************************)
C10_ForwardThenReverse ==
  /\ fwdTicks = revTicks => mode % 4 = startMode % 4
  /\ (startMode % 4 = 0 /\ fwdTicks = 0 /\ revTicks = 1) => mode % 4 = 3
  /\ mode = (startMode + fwdTicks - revTicks) % 256

\* three forward ticks from 254 crossed the wrap to 1, and three reverse
\* ticks came back
C10_Witness ==
  /\ startMode = 254 /\ fwdTicks = 3 /\ revTicks = 3
  /\ dir = "R" /\ mode = 254

\* ---------------------------------------------------------------------------
\* C11: from every starting value of the step counter, 4 consecutive forward
\* ticks bring the step index and both output levels back to where they
\* started, and 1, 2 or 3 forward ticks do not: the cycle is exactly 4 long,
\* also when the 8-bit counter wraps on the way.
C11_ForwardCycleIsFour ==
  revTicks = 0 =>
    IF fwdTicks % 4 = 0
      THEN /\ StepIndex(mode) = StepIndex(startMode)
           /\ outA = levelA(startMode)
           /\ outB = levelB(startMode)
      ELSE /\ StepIndex(mode) # StepIndex(startMode)
           /\ <<outA, outB>> # <<levelA(startMode), levelB(startMode)>>

\* four forward ticks from 253 pass 254, 255, 0 and end at 1
C11_Witness ==
  /\ startMode = 253 /\ fwdTicks = 4 /\ revTicks = 0
  /\ pc = "loop" /\ mode = 1 /\ outA = 1 /\ outB = 0

\* ---------------------------------------------------------------------------
\* the clock passes 250 ms and no byte has arrived since setup
Passes250 == arrived = 0 /\ now.hi = 0 /\ now.lo <= 250 /\ now'.lo > 250

\* C12 as stated: from setup at time 0 (period 100 ms, forward, step index 0)
\* and with no serial input, whenever the tick checks are at most 50 ms
\* apart, exactly 2 ticks have fired when 250 ms have passed and the step
\* index is 2. Violated: tick checks at 45, 95, 145 (tick), 195, 240, 290
\* fire the second tick at 290.
C12_TwoTicksBy250 ==
  [][Passes250 => (fwdTicks = 2 /\ StepIndex(mode) = 2)]_vars

\* the tick checks of C12 as amended are at most FineGap ms apart
FineGap == 25

\* C12 as amended: from setup at time 0 and with no serial input, whenever
\* the tick checks are at most 25 ms apart, exactly 2 ticks have fired when
\* 250 ms have passed and the step index is 2; with tick checks up to 50 ms
\* apart 1 or 2 ticks have fired and the step index is their number.
C12_TwoTicksBy250PolledWithin25 ==
  [][Passes250 =>
       /\ fwdTicks \in {1, 2} /\ revTicks = 0 /\ StepIndex(mode) = fwdTicks
       /\ (maxGap <= FineGap /\ idle' <= FineGap) =>
            (fwdTicks = 2 /\ StepIndex(mode) = 2)]_vars

\* tick checks 25 ms apart fired the ticks at 120 and 240 ms
C12_Witness ==
  /\ arrived = 0 /\ now = U32(255) /\ maxGap = FineGap /\ idle <= FineGap
  /\ lastSimulationAt = U32(240) /\ fwdTicks = 2 /\ mode = 2

\* ---------------------------------------------------------------------------
\* a step of loop(): the only steps that move pc
Steps(from) == pc = from /\ pc' # pc

\* C13: a pass through loop() prints a status line exactly when at least
\* 1000 ms have passed since lastMessageAt, the time stamped when the previous
\* line was printed, so that two consecutive lines are at least 1000 ms
\* apart; the line holds 'R' for a non-zero direction flag and 'F' otherwise,
\* then revolutions, then the count; and printing changes none of dir,
\* updatePeriod, mode, revolutions and the timer configuration.
C13_StatusEvery1000 ==
  [][/\ Steps("loop") =>
          /\ pc' \in {"print_dir", "comms"}
          /\ pc' = "print_dir" <=> U32Ge(U32Sub(now, lastMessageAt), U32(1000))
     /\ lastMessageAt' # lastMessageAt =>
          (Steps("stamp") /\ lastMessageAt' = now)
     /\ Steps("print_dir") =>
          /\ line' = <<(IF dirFlag # 0 THEN "R" ELSE "F")>>
          /\ U32Ge(U32Sub(now, lineAt), U32(1000))
     /\ Steps("print_revs") => line' = Append(line, revolutions)
     /\ Steps("print_count") =>
          /\ line' = Append(line, count)
          /\ U32Ge(U32Sub(now, lineAt), U32(1000))
     /\ (Printing \/ pc = "stamp") /\ pc' # pc =>
          UNCHANGED <<dir, updatePeriod, mode, revolutions, timerConfig>>
     /\ ~(Printing \/ pc = "stamp") => line' = line]_vars

\* the second status line, 1000 ms after the stamp of the first, printed
\* after one count down from 0
C13_Witness ==
  /\ pc = "stamp" /\ lastMessageAt = U32(1250) /\ lineAt = U32(2250)
  /\ line = <<"R", [hi |-> 65535, lo |-> 65535], 1023>>

\* ---------------------------------------------------------------------------
\* C14 as stated: for the steps 0, 1, 2, 3 simulateStep drives (A, B) to
\* (0,0), (1,0), (0,1), (1,1); at step 2 the pins are (0,1). Violated: a
\* tick to step 2 drives (1,1).
C14_LevelsAsStated ==
  (mode \in 0 .. 3 /\ fwdTicks + revTicks > 0) =>
    <<outA, outB>> = <<(<<0, 0>>), (<<1, 0>>), (<<0, 1>>), (<<1, 1>>)>>[mode + 1]

\* C14 as amended: for the steps 0, 1, 2, 3 simulateStep drives (A, B) to
\* (0,0), (1,0), (1,1), (0,1); at step 2 the pins are (1,1).
C14_LevelsOfSteps0To3 ==
  (mode \in 0 .. 3 /\ fwdTicks + revTicks > 0) =>
    <<outA, outB>> = <<(<<0, 0>>), (<<1, 0>>), (<<1, 1>>), (<<0, 1>>)>>[mode + 1]

\* one forward tick from step 1 drives both lines high
C14_Witness ==
  /\ startMode = 1 /\ fwdTicks = 1 /\ revTicks = 0
  /\ mode = 2 /\ outA = 1 /\ outB = 1

\* ---------------------------------------------------------------------------
\* C15: after the byte 'B' ("Move BackWard" of the protocol comment) was
\* handled, the ticks that follow decrement the step counter. Violated: the
\* code compares the byte with 'F' and 'R' only, 'B' leaves dir alone and the
\* next tick still increments.
C15_BMovesBackward ==
  [][(received = "B" /\ Steps("step")) => mode' = U8(mode + 255)]_vars

\* ---------------------------------------------------------------------------
\* the two output lines packed as 0bBA
PackedBA(a, b) == 2 * b + a

\* the quadrature sequence 00 -> 01 -> 11 -> 10 -> 00: what follows each 0bBA
QuadratureNext == <<1, 3, 0, 2>>

\* C16: every tick changes the level of exactly one of the two output lines;
\* a forward tick moves the lines, packed as BA, one place along 00 -> 01 ->
\* 11 -> 10 -> 00 and a reverse tick one place back, also right after a
\* change of direction and when the 8-bit step counter wraps; before the
\* first tick from step 0 the lines are at 00, as setup left them.
C16_QuadratureSequence ==
  [][/\ (startMode = 0 /\ fwdTicks + revTicks = 0) => PackedBA(outA, outB) = 0
     /\ Steps("step") =>
          /\ (outA' # outA) # (outB' # outB)
          /\ dir = "F" =>
               PackedBA(outA', outB') = QuadratureNext[PackedBA(outA, outB) + 1]
          /\ dir = "R" =>
               PackedBA(outA, outB) = QuadratureNext[PackedBA(outA', outB') + 1]
          /\ dir \in {"F", "R"}]_vars

\* from 255 a forward tick wraps to 0 (lines 10 -> 00) and, the direction
\* changed, the next tick goes back to 255 (lines 00 -> 10)
C16_Witness ==
  /\ startMode = 255 /\ fwdTicks = 1 /\ revTicks = 1 /\ dir = "R"
  /\ mode = 255 /\ outA = 0 /\ outB = 1

\* ---------------------------------------------------------------------------
\* C17: a pass through simulate() takes exactly one byte from the receive
\* buffer when it holds one and none when it is empty; it takes the oldest
\* byte, arrivals join at the other end; and the byte's effect on dir and
\* updatePeriod is in place when the same pass goes on to the tick check, so
\* that the check compares with the new period and the tick moves in the new
\* direction.
C17_OneByteInOrderBeforeTick ==
  [][/\ Steps("comms") =>
          /\ pc' = "tick"
          /\ IF Len(rx) > 0
               THEN /\ rx' = Tail(rx) /\ received' = Head(rx)
                    /\ Head(rx) = "R" => dir' = "R"
                    /\ Head(rx) = "-" =>
                         updatePeriod' = U32Add(updatePeriod, U32(50))
               ELSE UNCHANGED <<rx, received, dir, updatePeriod>>
     /\ ~Steps("comms") =>
          /\ rx' = rx \/ (Len(rx') = Len(rx) + 1 /\ SubSeq(rx', 1, Len(rx)) = rx)
          /\ UNCHANGED <<received, dir, updatePeriod>>
     /\ Steps("tick") =>
          (pc' = "step" <=> U32Ge(U32Sub(now, lastSimulationAt), updatePeriod))
     /\ Steps("step") =>
          mode' = (IF dir = "R" THEN U8(mode + 255) ELSE U8(mode + 1))]_vars

\* '-' was taken before 'R', which waits for the next pass; 100 ms after
\* setup the tick check that follows compares with 150 ms and fires no tick
C17_Witness ==
  /\ pc = "tick" /\ received = "-" /\ rx = <<"R">> /\ dir = "F"
  /\ updatePeriod = U32(150) /\ now = U32(100) /\ fwdTicks = 0 /\ idle > 0

\* ---------------------------------------------------------------------------
\* C18 as stated: every status line is a consistent snapshot: direction,
\* revolutions and count as printed are a reading the three of them showed
\* together at one instant of the report, however the timer's counting and
\* the overflow interrupt fall between the three reads. Violated: direction
\* read as 'F', then one count down from 0 and its interrupt, then
\* revolutions read as 4294967295 and the count as 1023.
C18_LineIsSnapshot ==
  (pc = "stamp") => line \in seen

\* C18 as amended: every field of a status line is a value its variable
\* showed during the report, and the line is a reading the three showed
\* together when neither the timer counted nor the interrupt ran during the
\* report; otherwise the line may join values of different instants.
C18_FieldsReadDuringReport ==
  (pc = "stamp") =>
    /\ Len(line) = 3
    /\ \A i \in 1 .. 3 : \E r \in seen : line[i] = r[i]
    /\ Cardinality(seen) = 1 => line \in seen

\* a line that joins the direction of before a count down from 0 with the
\* revolutions and the count of after it
C18_Witness ==
  /\ pc = "stamp" /\ line \notin seen
  /\ line = <<"F", [hi |-> 65535, lo |-> 65535], 1023>>
  /\ Reading(0, U32(0), 0) \in seen
  /\ Reading(1, [hi |-> 65535, lo |-> 65535], 1023) \in seen
====
